---------------------------- MODULE Spec2Model ----------------------------
(***************************************************************************)
(* The ut_metadata exchange of intermodal: InfoFetcher (requester),        *)
(* InfoSeeder (provider) and the Behaviour dispatcher they share.          *)
(*                                                                         *)
(* Bytes are small integers.  A payload is a sequence of tokens: header    *)
(* tokens (>= 100) stand for the bencoded dictionary that opens an         *)
(* extension payload, the tokens below 100 are raw info-dict bytes.        *)
(***************************************************************************)
EXTENDS Integers, Sequences, FiniteSets, TLC

(***************************************************************************)
(* Bounds                                                                  *)
(***************************************************************************)
\* extended::UtMetadata::PIECE_LENGTH, scaled down (16 KiB in the program)
PIECE_LENGTH == 2
\* longest serialized info dict / largest declared metadata_size
MaxLen == 3
\* The Data messages one run is given at most.
MaxData == 2
\* The operations (connect, announce) one UdpTrackerConn is asked for.
MaxOps == 2
\* How often the owner of a UdpTrackerConn lets time pass between two
\* operations, and for how many seconds each time.
MaxIdles == 2
IdleQuantum == 31
\* The peers in the longest compact peer list a tracker answers with.
MaxPeers == 2

None == 0 - 1

(***************************************************************************)
(* Info, its bencoding and the infohash                                    *)
(***************************************************************************)
\* The values an Info is made of.
Items == {"x", "y"}
\* Raw bytes: 1 and 2 encode the items, 0 is content the Info deserializer
\* skips (a key the struct does not have).
Bytes == 0..2

SeqsUpTo(S, n) == UNION {[1..k -> S] : k \in 0..n}

\* Info values: at least one item (a bencoded Info is never empty).
Infos == SeqsUpTo(Items, MaxLen) \ {<<>>}
\* Option<Info>::None
NoInfo == <<>>

\* bendy::serde::ser::to_bytes(&info): the canonical encoding.
ToBytes(info) == [k \in 1..Len(info) |-> IF info[k] = "x" THEN 1 ELSE 2]

RECURSIVE FromBytes(_)
\* bendy::serde::de::from_bytes::<Info>(bytes): skipped content is dropped,
\* the items are read back; NoInfo stands for the decode error (no item).
FromBytes(bytes) ==
  IF bytes = <<>> THEN <<>>
  ELSE LET rest == FromBytes(Tail(bytes))
           b == Head(bytes)
       IN  IF b = 0 THEN rest
           ELSE <<(IF b = 1 THEN "x" ELSE "y")>> \o rest

RECURSIVE FromBencodedInfoDict(_)
\* Infohash::from_bencoded_info_dict: a collision-free digest of the bytes.
FromBencodedInfoDict(bytes) ==
  IF bytes = <<>> THEN 1
  ELSE 3 * FromBencodedInfoDict(SubSeq(bytes, 1, Len(bytes) - 1))
         + bytes[Len(bytes)]

(***************************************************************************)
(* Wire messages                                                           *)
(***************************************************************************)
\* extended::Id as it travels: 0 is the handshake, UT_METADATA_ID is the id
\* this program announces for ut_metadata, anything else is not implemented.
HANDSHAKE_ID == 0
UT_METADATA_ID == 1
ExtIds == 0..2

\* ut_metadata msg_type values
REQUEST == 0
DATA == 1
REJECT == 2

Id(b) == IF b = HANDSHAKE_ID THEN "Handshake"
         ELSE IF b = UT_METADATA_ID THEN "UtMetadata"
         ELSE "NotImplemented"

\* Bencoding of an extended::UtMetadata header {msg_type, piece, total_size?}.
UtBencode(m) ==
  <<100 + m.msg_type, 200 + m.piece>>
    \o (IF m.total_size = None THEN <<>> ELSE <<300 + m.total_size>>)

\* Message::from_bencode::<UtMetadata>(payload): reads the leading
\* dictionary, ignores what follows it.  ok = FALSE is the decode error.
UtFromBencode(p) ==
  IF Len(p) >= 2 /\ p[1] \in 100..199 /\ p[2] \in 200..299
  THEN [ok |-> TRUE, msg_type |-> p[1] - 100, piece |-> p[2] - 200,
        total_size |-> IF Len(p) >= 3 /\ p[3] \in 300..399
                       THEN p[3] - 300 ELSE None]
  ELSE [ok |-> FALSE, msg_type |-> 0, piece |-> 0, total_size |-> None]

\* Bencoding of an extended::Handshake {m: {ut_metadata: id}?, metadata_size?}.
HsBencode(h) ==
  <<400>> \o (IF h.ut_id = None THEN <<>> ELSE <<500 + h.ut_id>>)
          \o (IF h.metadata_size = None THEN <<>> ELSE <<600 + h.metadata_size>>)

\* Message::from_bencode::<Handshake>(payload)
HsFromBencode(p) ==
  IF Len(p) >= 1 /\ p[1] = 400
  THEN LET ids == {p[k] - 500 : k \in {j \in 2..Len(p) : p[j] \in 500..599}}
           szs == {p[k] - 600 : k \in {j \in 2..Len(p) : p[j] \in 600..699}}
       IN  [ok |-> TRUE,
            ut_id |-> IF ids = {} THEN None ELSE CHOOSE i \in ids : TRUE,
            metadata_size |-> IF szs = {} THEN None ELSE CHOOSE s \in szs : TRUE]
  ELSE [ok |-> FALSE, ut_id |-> None, metadata_size |-> None]

\* extended::Handshake::default(): announces ut_metadata, no metadata_size.
DefaultHandshake == [ut_id |-> UT_METADATA_ID, metadata_size |-> None]

\* A peer-wire message: its flavour, the extension id byte, the payload.
Msg(fl, id, p) == [flavour |-> fl, id |-> id, payload |-> p]
NoMsg == Msg("None", 0, <<>>)

\* Message::new_extended(id, handshake) / Message::new_extended_handshake()
NewExtendedHandshake(h) == Msg("Extended", HANDSHAKE_ID, HsBencode(h))
\* Message::new_extended(id, UtMetadata::request(piece))
NewRequest(id, piece) ==
  Msg("Extended", id,
      UtBencode([msg_type |-> REQUEST, piece |-> piece, total_size |-> None]))
\* Message::new_extended_with_trailer(id, UtMetadata::data(piece, size), bytes)
NewData(id, piece, size, trailer) ==
  Msg("Extended", id,
      UtBencode([msg_type |-> DATA, piece |-> piece, total_size |-> size])
        \o trailer)

(***************************************************************************)
(* State                                                                   *)
(***************************************************************************)
VARIABLES
  conn_up,     \* the TCP connection between the two peers is open
  tampered,    \* a byte of the final piece was changed in flight
  f2s,         \* messages sent by the fetcher, not yet read by its peer
  s2f,         \* messages sent by the seeder, not yet read by its peer
  f_pc,        \* where the fetcher is: new() .. run() .. returned
  f_err,       \* the Err a failed new()/run() returned
  f_infohash,  \* InfoFetcher.infohash
  f_id,        \* InfoFetcher.ut_metadata_message_id
  f_size,      \* InfoFetcher.metadata_size
  f_dict,      \* InfoFetcher.info_dict
  f_info,      \* InfoFetcher.info
  f_msg,       \* the message run() last received
  f_result,    \* the Info run() returned
  f_restart,   \* a handshake dropped received bytes; nothing requested since
  f_ext,       \* conn.supports_extension_protocol(), as new() saw it
  f_reqs,      \* how many Requests run() has sent
  f_datas,     \* how many Data messages ut_metadata_data was given
  s_pc,        \* where the seeder is: new() .. seed() .. returned or panicked
  s_err,       \* the Err a failed new()/seed() returned
  s_info,      \* the Info the seeder was given
  s_id,        \* InfoSeeder.ut_metadata_message_id
  s_size,      \* InfoSeeder.metadata_size
  s_dict,      \* InfoSeeder.info_dict
  s_pieces,    \* InfoSeeder.pieces
  s_msg,       \* the message seed() last received
  s_range,     \* the byte range the last dispatch sliced info_dict with
  t_pc,        \* where the UdpTrackerConn is: idle, in the retry loop, returned
  t_op,        \* the operation in progress: connect or announce
  t_state,     \* UdpTrackerConn.state: Disconnected, or Connected {id, epoch}
  t_attempt,   \* send_and_retry_with_backoff: attempt
  t_txid,      \* req.transaction_id of the operation in progress
  t_tx,        \* the last datagram transmitted and the read timeout asked for it
  t_sent,      \* how many datagrams the operation in progress has transmitted
  t_rx,        \* the bytes recv() put into rxbuf, if it returned Ok
  t_got,       \* recv() returned Ok in the operation in progress
  t_err,       \* what the last operation returned: Ok or the error
  t_peers,     \* the peer list the last announce returned
  t_ops,       \* how many operations were started
  t_idles      \* how often time passed between operations

fvars == <<f_pc, f_err, f_infohash, f_id, f_size, f_dict, f_info, f_msg,
           f_result, f_restart, f_ext, f_reqs, f_datas>>
svars == <<s_pc, s_err, s_info, s_id, s_size, s_dict, s_pieces, s_msg,
           s_range>>
tvars == <<t_pc, t_op, t_state, t_attempt, t_txid, t_tx, t_sent, t_rx, t_got,
           t_err, t_peers, t_ops, t_idles>>
pvars == <<conn_up, tampered, f2s, s2f, fvars, svars>>
vars == <<pvars, tvars>>

(***************************************************************************)
(* Behaviour (src/peer/strategy.rs): the routing both roles share.  The    *)
(* result names the hook to run and what it is given.                      *)
(***************************************************************************)
Route(hook, msg, payload) == [hook |-> hook, msg |-> msg, payload |-> payload]
NoUt == [ok |-> FALSE, msg_type |-> 0, piece |-> 0, total_size |-> None]

\* ut_metadata that takes every msg_type but Request for Data.
ut_metadata_DataUnlessRequest(payload) ==
  LET msg == UtFromBencode(payload)
  IN  IF ~msg.ok THEN Route("error", NoUt, payload)
      ELSE IF msg.msg_type = REQUEST THEN Route("ut_metadata_request", msg, payload)
      ELSE Route("ut_metadata_data", msg, payload)

\* Behaviour::ut_metadata
ut_metadata(payload) ==
  LET msg == UtFromBencode(payload)
  IN  IF ~msg.ok THEN Route("error", NoUt, payload)
      ELSE IF msg.msg_type = DATA THEN Route("ut_metadata_data", msg, payload)
      ELSE IF msg.msg_type = REQUEST THEN Route("ut_metadata_request", msg, payload)
      ELSE Route("none", NoUt, payload)

\* Behaviour::handle_extended; an extended message without an id byte is
\* the parse_extended_payload error.
handle_extended(message) ==
  IF message.id = None THEN Route("error", NoUt, <<>>)
  ELSE IF Id(message.id) = "Handshake"
       THEN Route("extension_handshake", NoUt, message.payload)
  ELSE IF Id(message.id) = "UtMetadata" THEN ut_metadata(message.payload)
  ELSE Route("none", NoUt, message.payload)

\* Behaviour::handle_message
handle_message(message) ==
  IF message.flavour = "Extended" THEN handle_extended(message)
  ELSE Route("none", NoUt, <<>>)

(***************************************************************************)
(* InfoFetcher (src/peer/info_fetcher.rs)                                  *)
(***************************************************************************)
\* The fields a hook may change, and what a hook returns: Ok or the error,
\* the fields afterwards, the messages it sent.
FSelf == [id |-> f_id, size |-> f_size, dict |-> f_dict, info |-> f_info]
Res(err, self, out) == [err |-> err, self |-> self, out |-> out]

\* Connection::send: fails once the connection is closed (up = FALSE).
ConnSend(up, self, m) ==
  IF up THEN Res("Ok", self, <<m>>) ELSE Res("Network", self, <<>>)

\* verify_info_dict with the infohash comparison left out.
verify_info_dict_NoCompare(self) ==
  LET info == FromBytes(self.dict)
  IN  IF info = NoInfo
      THEN Res("PeerUtMetadataInfoDeserialize", self, <<>>)
      ELSE Res("Ok", [self EXCEPT !.info = info], <<>>)

\* InfoFetcher::verify_info_dict
verify_info_dict(self) ==
  LET info == FromBytes(self.dict)
  IN  IF info = NoInfo
      THEN Res("PeerUtMetadataInfoDeserialize", self, <<>>)
      ELSE IF FromBencodedInfoDict(ToBytes(info)) = f_infohash
           THEN Res("Ok", [self EXCEPT !.info = info], <<>>)
           ELSE Res("PeerUtMetadataWrongInfohash", self, <<>>)

\* ut_metadata_data that verifies as soon as the declared size is reached
\* or passed.
Fetcher_ut_metadata_data_VerifyLong(up, msg, payload) ==
  LET self == FSelf
      piece == Len(self.dict) \div PIECE_LENGTH
      piece_offset == Len(UtBencode(msg))
      trailer == SubSeq(payload, piece_offset + 1, Len(payload))
      grown == [self EXCEPT !.dict = self.dict \o trailer]
  IN  IF msg.piece # piece THEN Res("PeerUtMetadataWrongPiece", self, <<>>)
      ELSE IF Len(trailer) > PIECE_LENGTH
           THEN Res("PeerUtMetadataPieceLength", self, <<>>)
      ELSE IF Len(grown.dict) >= grown.size THEN verify_info_dict(grown)
      ELSE ConnSend(up, grown, NewRequest(grown.id, piece + 1))

\* ut_metadata_data with the trailer length check left out.
Fetcher_ut_metadata_data_AnyLength(up, msg, payload) ==
  LET self == FSelf
      piece == Len(self.dict) \div PIECE_LENGTH
      piece_offset == Len(UtBencode(msg))
      trailer == SubSeq(payload, piece_offset + 1, Len(payload))
      grown == [self EXCEPT !.dict = self.dict \o trailer]
  IN  IF msg.piece # piece THEN Res("PeerUtMetadataWrongPiece", self, <<>>)
      ELSE IF Len(grown.dict) = grown.size THEN verify_info_dict(grown)
      ELSE IF Len(grown.dict) < grown.size
           THEN ConnSend(up, grown, NewRequest(grown.id, piece + 1))
      ELSE Res("PeerUtMetadataInfoLength", grown, <<>>)

\* ut_metadata_data with the piece index check left out.
Fetcher_ut_metadata_data_AnyPiece(up, msg, payload) ==
  LET self == FSelf
      piece == Len(self.dict) \div PIECE_LENGTH
      piece_offset == Len(UtBencode(msg))
      trailer == SubSeq(payload, piece_offset + 1, Len(payload))
      grown == [self EXCEPT !.dict = self.dict \o trailer]
  IN  IF Len(trailer) > PIECE_LENGTH
      THEN Res("PeerUtMetadataPieceLength", self, <<>>)
      ELSE IF Len(grown.dict) = grown.size THEN verify_info_dict(grown)
      ELSE IF Len(grown.dict) < grown.size
           THEN ConnSend(up, grown, NewRequest(grown.id, piece + 1))
      ELSE Res("PeerUtMetadataInfoLength", grown, <<>>)

\* InfoFetcher::ut_metadata_data
Fetcher_ut_metadata_data(up, msg, payload) ==
  LET self == FSelf
      piece == Len(self.dict) \div PIECE_LENGTH
      piece_offset == Len(UtBencode(msg))
      trailer == SubSeq(payload, piece_offset + 1, Len(payload))
      grown == [self EXCEPT !.dict = self.dict \o trailer]
  IN  IF msg.piece # piece THEN Res("PeerUtMetadataWrongPiece", self, <<>>)
      ELSE IF Len(trailer) > PIECE_LENGTH
           THEN Res("PeerUtMetadataPieceLength", self, <<>>)
      ELSE IF Len(grown.dict) = grown.size THEN verify_info_dict(grown)
      ELSE IF Len(grown.dict) < grown.size
           THEN ConnSend(up, grown, NewRequest(grown.id, piece + 1))
      ELSE Res("PeerUtMetadataInfoLength", grown, <<>>)

\* extension_handshake that drops the received bytes before it looks at the
\* handshake.
Fetcher_extension_handshake_ClearFirst(payload) ==
  LET self == [FSelf EXCEPT !.dict = <<>>]
      handshake == HsFromBencode(payload)
  IN  IF ~handshake.ok THEN Res("Bencode", self, <<>>)
      ELSE IF handshake.metadata_size = None
           THEN Res("PeerUtMetadataMetadataSizeNotKnown", self, <<>>)
      ELSE IF handshake.ut_id = None
           THEN Res("PeerUtMetadataNotSupported", self, <<>>)
      ELSE Res("Ok", [self EXCEPT !.size = handshake.metadata_size,
                                  !.id = handshake.ut_id], <<>>)

\* extension_handshake that requests piece 0 again once it has dropped the
\* received bytes.
Fetcher_extension_handshake_Rerequest(payload) ==
  LET self == FSelf
      handshake == HsFromBencode(payload)
  IN  IF ~handshake.ok THEN Res("Bencode", self, <<>>)
      ELSE IF handshake.metadata_size = None
           THEN Res("PeerUtMetadataMetadataSizeNotKnown", self, <<>>)
      ELSE IF handshake.ut_id = None
           THEN Res("PeerUtMetadataNotSupported", self, <<>>)
      ELSE Res("Ok", [self EXCEPT !.size = handshake.metadata_size,
                                  !.id = handshake.ut_id,
                                  !.dict = <<>>],
               <<NewRequest(handshake.ut_id, 0)>>)

\* InfoFetcher::extension_handshake
Fetcher_extension_handshake(payload) ==
  LET self == FSelf
      handshake == HsFromBencode(payload)
  IN  IF ~handshake.ok THEN Res("Bencode", self, <<>>)
      ELSE IF handshake.metadata_size = None
           THEN Res("PeerUtMetadataMetadataSizeNotKnown", self, <<>>)
      ELSE IF handshake.ut_id = None
           THEN Res("PeerUtMetadataNotSupported", self, <<>>)
      ELSE Res("Ok", [self EXCEPT !.size = handshake.metadata_size,
                                  !.id = handshake.ut_id,
                                  !.dict = <<>>], <<>>)

\* ut_metadata_request that serves the bytes received so far.
Fetcher_ut_metadata_request_Serve(msg) ==
  Res("Ok", FSelf, <<NewData(f_id, msg.piece, f_size, f_dict)>>)

\* InfoFetcher::ut_metadata_request
Fetcher_ut_metadata_request(msg) == Res("Ok", FSelf, <<>>)

\* handle_message on an InfoFetcher: the route, then the fetcher's hook.
Fetcher_handle_message(up, message) ==
  LET r == handle_message(message)
  IN  IF r.hook = "error" THEN Res("Bencode", FSelf, <<>>)
      ELSE IF r.hook = "extension_handshake"
           THEN Fetcher_extension_handshake(r.payload)
      ELSE IF r.hook = "ut_metadata_data"
           THEN Fetcher_ut_metadata_data(up, r.msg, r.payload)
      ELSE IF r.hook = "ut_metadata_request"
           THEN Fetcher_ut_metadata_request(r.msg)
      ELSE Res("Ok", FSelf, <<>>)

\* Connection::expect_extended_handshake: the next message must be an
\* extended handshake; a closed connection or a read timeout is Network.
expect_extended_handshake(received, message) ==
  IF ~received THEN [err |-> "Network", handshake |-> HsFromBencode(<<>>)]
  ELSE IF message.flavour = "Extended" /\ message.id = HANDSHAKE_ID
          /\ HsFromBencode(message.payload).ok
       THEN [err |-> "Ok", handshake |-> HsFromBencode(message.payload)]
       ELSE [err |-> "ExtendedHandshake", handshake |-> HsFromBencode(<<>>)]

\* NewOutcome with the two checks in the other order.
NewOutcome_IdFirst(handshake) ==
  IF handshake.ut_id = None THEN "PeerUtMetadataNotSupported"
  ELSE IF handshake.metadata_size = None
       THEN "PeerUtMetadataMetadataSizeNotKnown"
  ELSE "Ok"

\* What new() decides from the peer's handshake (lines 29-36).
NewOutcome(handshake) ==
  IF handshake.metadata_size = None THEN "PeerUtMetadataMetadataSizeNotKnown"
  ELSE IF handshake.ut_id = None THEN "PeerUtMetadataNotSupported"
  ELSE "Ok"

\* new that goes on to expect_extended_handshake without having sent its
\* own handshake.
FetcherNewConnect_Silent(connected, ext, q) ==
  /\ f_pc = "init"
  /\ f_ext' = (connected /\ ext)
  /\ f2s' = q
  /\ IF ~connected
     THEN f_pc' = "new_failed" /\ f_err' = "Network"
     ELSE IF ~ext
     THEN f_pc' = "new_failed" /\ f_err' = "PeerUtMetadataNotSupported"
     ELSE f_pc' = "expect" /\ f_err' = f_err
  /\ UNCHANGED <<f_infohash, f_id, f_size, f_dict, f_info, f_msg, f_result,
                 f_restart, f_reqs, f_datas>>

\* InfoFetcher::new, up to its own handshake being sent (lines 21-26).
\* connected: Connection::new succeeded; ext: the peer's BitTorrent
\* handshake set the extension-protocol bit.  The extension bit is looked
\* at before the connection is first written to, so a connection the peer
\* has closed since fails the send, and only if the bit is set.
FetcherNewConnect(connected, ext, q) ==
  /\ f_pc = "init"
  /\ f_ext' = (connected /\ ext)
  /\ IF ~connected
     THEN /\ f_pc' = "new_failed" /\ f_err' = "Network" /\ f2s' = q
     ELSE IF ~ext
     THEN /\ f_pc' = "new_failed" /\ f_err' = "PeerUtMetadataNotSupported"
          /\ f2s' = q
     ELSE IF ~conn_up
     THEN /\ f_pc' = "new_failed" /\ f_err' = "Network" /\ f2s' = q
     ELSE /\ f_pc' = "expect" /\ f_err' = f_err
          /\ f2s' = Append(q, NewExtendedHandshake(DefaultHandshake))
  /\ UNCHANGED <<f_infohash, f_id, f_size, f_dict, f_info, f_msg, f_result,
                 f_restart, f_reqs, f_datas>>

\* InfoFetcher::new, from expect_extended_handshake on (lines 27-45).
FetcherNewExpect(received, message) ==
  /\ f_pc = "expect"
  /\ f_msg' = IF received THEN message ELSE f_msg
  /\ LET e == expect_extended_handshake(received, message)
         o == IF e.err # "Ok" THEN e.err ELSE NewOutcome(e.handshake)
     IN  IF o # "Ok"
         THEN /\ f_pc' = "new_failed" /\ f_err' = o
              /\ UNCHANGED <<f_id, f_size, f_dict, f_info>>
         ELSE /\ f_pc' = "constructed" /\ f_err' = f_err
              /\ f_size' = e.handshake.metadata_size
              /\ f_id' = e.handshake.ut_id
              /\ f_dict' = <<>>
              /\ f_info' = NoInfo
  /\ UNCHANGED <<f_infohash, f_result, f_restart, f_ext, f_reqs, f_datas>>

\* InfoFetcher::run, line 49: the first send, our handshake.
FetcherRunStart(q) ==
  /\ f_pc = "constructed"
  /\ IF conn_up
     THEN /\ f_pc' = "run_request" /\ f_err' = f_err
          /\ f2s' = Append(q, NewExtendedHandshake(DefaultHandshake))
     ELSE /\ f_pc' = "failed" /\ f_err' = "Network" /\ f2s' = q
  /\ UNCHANGED <<f_infohash, f_id, f_size, f_dict, f_info, f_msg, f_result,
                 f_restart, f_ext, f_reqs, f_datas>>

\* InfoFetcher::run, lines 50-54: the second send, the Request for piece 0;
\* the loop is entered.
FetcherRunRequest(q) ==
  /\ f_pc = "run_request"
  /\ IF conn_up
     THEN /\ f_pc' = "running" /\ f_err' = f_err
          /\ f2s' = Append(q, NewRequest(f_id, 0))
     ELSE /\ f_pc' = "failed" /\ f_err' = "Network" /\ f2s' = q
  /\ f_reqs' = IF conn_up THEN f_reqs + 1 ELSE f_reqs
  /\ UNCHANGED <<f_infohash, f_id, f_size, f_dict, f_info, f_msg, f_result,
                 f_restart, f_ext, f_datas>>

\* run, line 57: recv() returned a message.
FetcherRecv(message) ==
  /\ f_pc = "running"
  /\ f_pc' = "dispatch"
  /\ f_msg' = message
  /\ UNCHANGED <<f_err, f_infohash, f_id, f_size, f_dict, f_info, f_result,
                 f_restart, f_ext, f_reqs, f_datas>>

\* run, line 57: recv() failed, run returns the error.
FetcherRecvErr ==
  /\ f_pc = "running" /\ ~conn_up /\ s2f = <<>>
  /\ f_pc' = "failed" /\ f_err' = "Network"
  /\ UNCHANGED <<f_infohash, f_id, f_size, f_dict, f_info, f_msg, f_result,
                 f_restart, f_ext, f_reqs, f_datas>>

\* run, lines 58-61: dispatch the message; an error ends run, a verified
\* Info is taken out and returned, otherwise the loop goes on.  up: the
\* connection is still open when the hook sends.
FetcherDispatch(up, q) ==
  /\ f_pc = "dispatch"
  /\ conn_up' = up
  /\ LET r == Fetcher_handle_message(up, f_msg)
     IN  /\ f_id' = r.self.id
         /\ f_size' = r.self.size
         /\ f_dict' = r.self.dict
         /\ f2s' = q \o r.out
         /\ IF r.err # "Ok"
            THEN /\ f_pc' = "failed" /\ f_err' = r.err
                 /\ f_info' = r.self.info /\ f_result' = f_result
            ELSE IF r.self.info # NoInfo
            THEN /\ f_pc' = "done" /\ f_err' = f_err
                 /\ f_info' = NoInfo /\ f_result' = r.self.info
            ELSE /\ f_pc' = "running" /\ f_err' = f_err
                 /\ f_info' = r.self.info /\ f_result' = f_result
         /\ f_restart' =
              IF r.out # <<>> THEN FALSE
              ELSE IF /\ handle_message(f_msg).hook = "extension_handshake"
                      /\ r.err = "Ok" /\ f_dict # <<>> /\ r.self.size # f_size
                   THEN TRUE
                   ELSE f_restart
         /\ f_reqs' = f_reqs + Len(r.out)
         /\ f_datas' = IF handle_message(f_msg).hook = "ut_metadata_data"
                        THEN f_datas + 1 ELSE f_datas
  /\ UNCHANGED <<f_infohash, f_msg, f_ext>>

(***************************************************************************)
(* InfoSeeder (src/peer/info_seeder.rs)                                    *)
(***************************************************************************)
NoRange == [start |-> None, end |-> None]
SSelf == [id |-> s_id, size |-> s_size, dict |-> s_dict, pieces |-> s_pieces]
\* What a seeder hook returns: Ok or the error, the messages it sent, the
\* range it sliced info_dict with.  "Panic" is the slice index out of range.
SRes(err, out, range) == [err |-> err, out |-> out, range |-> range]

\* The piece count with one added whatever the remainder is.
Pieces_RoundUp(len) == (len \div PIECE_LENGTH) + 1

\* The piece count InfoSeeder::new stores (lines 33-36).
Pieces(len) ==
  (len \div PIECE_LENGTH) + (IF len % PIECE_LENGTH > 0 THEN 1 ELSE 0)

\* InfoSeeder::send_ut_metadata_data
send_ut_metadata_data(up, self, piece) ==
  LET range ==
        [start |-> PIECE_LENGTH * piece,
         end |-> IF self.pieces - piece = 1
                 THEN PIECE_LENGTH * piece + (Len(self.dict) % PIECE_LENGTH)
                 ELSE PIECE_LENGTH * (piece + 1)]
  IN  IF range.start > range.end \/ range.end > Len(self.dict)
      THEN SRes("Panic", <<>>, range)
      ELSE IF up
      THEN SRes("Ok",
                <<NewData(self.id, piece, self.size,
                          SubSeq(self.dict, range.start + 1, range.end))>>,
                range)
      ELSE SRes("Network", <<>>, range)

\* InfoSeeder::ut_metadata_request
Seeder_ut_metadata_request(up, self, m) ==
  IF m.piece > self.pieces THEN SRes("Ok", <<>>, NoRange)
  ELSE send_ut_metadata_data(up, self, m.piece)

\* ut_metadata_data that answers a Data message with a Request for the piece
\* after it.
Seeder_ut_metadata_data_Ask(msg, payload) ==
  SRes("Ok", <<NewRequest(UT_METADATA_ID, msg.piece + 1)>>, NoRange)

\* InfoSeeder::ut_metadata_data
Seeder_ut_metadata_data(msg, payload) == SRes("Ok", <<>>, NoRange)

\* InfoSeeder::extension_handshake
Seeder_extension_handshake(payload) == SRes("Ok", <<>>, NoRange)

\* handle_message on an InfoSeeder: the route, then the seeder's hook.
Seeder_handle_message(up, self, message) ==
  LET r == handle_message(message)
  IN  IF r.hook = "error" THEN SRes("Bencode", <<>>, NoRange)
      ELSE IF r.hook = "extension_handshake"
           THEN Seeder_extension_handshake(r.payload)
      ELSE IF r.hook = "ut_metadata_data"
           THEN Seeder_ut_metadata_data(r.msg, r.payload)
      ELSE IF r.hook = "ut_metadata_request"
           THEN Seeder_ut_metadata_request(up, self, r.msg)
      ELSE SRes("Ok", <<>>, NoRange)

\* The seeder before InfoSeeder::new.
SeederIdle ==
  /\ s_pc = "init" /\ s_err = "Ok" /\ s_info = NoInfo
  /\ s_id = 0 /\ s_size = 0 /\ s_dict = <<>> /\ s_pieces = 0
  /\ s_msg = NoMsg /\ s_range = NoRange

\* InfoSeeder::new: the Info is serialized, the peer's extended handshake
\* is read and its ut_metadata id kept, the piece count is derived.
SeederNew(info, ext, received, message) ==
  /\ s_pc = "init"
  /\ s_info' = info
  /\ s_msg' = IF received THEN message ELSE s_msg
  /\ LET info_dict == ToBytes(info)
         e == expect_extended_handshake(received, message)
         o == IF ~ext THEN "PeerUtMetadataNotSupported"
              ELSE IF e.err # "Ok" THEN e.err
              ELSE IF e.handshake.ut_id = None THEN "PeerUtMetadataNotSupported"
              ELSE "Ok"
     IN  IF o # "Ok"
         THEN /\ s_pc' = "new_failed" /\ s_err' = o
              /\ UNCHANGED <<s_id, s_size, s_dict, s_pieces>>
         ELSE /\ s_pc' = "constructed" /\ s_err' = s_err
              /\ s_id' = e.handshake.ut_id
              /\ s_size' = Len(info_dict)
              /\ s_dict' = info_dict
              /\ s_pieces' = Pieces(Len(info_dict))
  /\ UNCHANGED s_range

\* InfoSeeder::seed up to the loop (lines 99-105): the handshake that
\* announces metadata_size.
SeederSeedStart(q) ==
  /\ s_pc = "constructed"
  /\ IF conn_up
     THEN /\ s_pc' = "serving" /\ s_err' = s_err
          /\ s2f' = Append(q, NewExtendedHandshake(
                                 [ut_id |-> UT_METADATA_ID,
                                  metadata_size |-> Len(s_dict)]))
     ELSE /\ s_pc' = "returned" /\ s_err' = "Network" /\ s2f' = q
  /\ UNCHANGED <<s_info, s_id, s_size, s_dict, s_pieces, s_msg, s_range>>

\* InfoSeeder::send_extended_handshake (lines 89-96): the same handshake,
\* and the function returns what the send returned; no loop is entered.
SeederSendExtendedHandshake(q) ==
  /\ s_pc = "constructed"
  /\ s_pc' = "handshake_returned"
  /\ IF conn_up
     THEN /\ s_err' = "Ok"
          /\ s2f' = Append(q, NewExtendedHandshake(
                                 [ut_id |-> UT_METADATA_ID,
                                  metadata_size |-> Len(s_dict)]))
     ELSE /\ s_err' = "Network" /\ s2f' = q
  /\ UNCHANGED <<s_info, s_id, s_size, s_dict, s_pieces, s_msg, s_range>>

\* InfoSeeder::receive_and_ignore up to the loop (lines 120-125): the same
\* handshake.
SeederIgnoreStart(q) ==
  /\ s_pc = "constructed"
  /\ IF conn_up
     THEN /\ s_pc' = "ignoring" /\ s_err' = s_err
          /\ s2f' = Append(q, NewExtendedHandshake(
                                 [ut_id |-> UT_METADATA_ID,
                                  metadata_size |-> Len(s_dict)]))
     ELSE /\ s_pc' = "ignore_returned" /\ s_err' = "Network" /\ s2f' = q
  /\ UNCHANGED <<s_info, s_id, s_size, s_dict, s_pieces, s_msg, s_range>>

\* receive_and_ignore, lines 126-130: recv() returned a message; it is
\* dropped without being dispatched and the loop continues.
SeederIgnoreRecv(message) ==
  /\ s_pc = "ignoring"
  /\ s_msg' = message
  /\ UNCHANGED <<s_pc, s_err, s_info, s_id, s_size, s_dict, s_pieces,
                 s_range>>

\* receive_and_ignore, lines 127-129: recv() failed; the loop continues.
SeederIgnoreRecvErr ==
  /\ s_pc = "ignoring" /\ ~conn_up /\ f2s = <<>>
  /\ UNCHANGED svars

\* seed, lines 108-110: recv() returned a message.
SeederRecv(message) ==
  /\ s_pc = "serving"
  /\ s_pc' = "dispatch"
  /\ s_msg' = message
  /\ s_range' = NoRange
  /\ UNCHANGED <<s_err, s_info, s_id, s_size, s_dict, s_pieces>>

\* seed, line 111: recv() failed; the loop continues.
SeederRecvErr ==
  /\ s_pc = "serving" /\ ~conn_up /\ f2s = <<>>
  /\ UNCHANGED svars

\* seed, lines 113-115: dispatch the message; an error is dropped and the
\* loop continues; a panic unwinds the thread, which closes the connection.
SeederDispatch(up, q) ==
  /\ s_pc = "dispatch"
  /\ LET r == Seeder_handle_message(up, SSelf, s_msg)
     IN  /\ s_range' = r.range
         /\ s2f' = q \o r.out
         /\ s_pc' = IF r.err = "Panic" THEN "panicked" ELSE "serving"
         /\ conn_up' = (up /\ r.err # "Panic")
  /\ UNCHANGED <<s_err, s_info, s_id, s_size, s_dict, s_pieces, s_msg>>

\* The fetcher before InfoFetcher::new, given the infohash to fetch.
FetcherIdle(infohash) ==
  /\ f_pc = "init" /\ f_err = "Ok"
  /\ f_infohash = infohash
  /\ f_id = 0 /\ f_size = 0 /\ f_dict = <<>> /\ f_info = NoInfo
  /\ f_msg = NoMsg /\ f_result = NoInfo /\ f_restart = FALSE
  /\ f_ext = FALSE
  /\ f_reqs = 0 /\ f_datas = 0

\* The connection is closed (by the peer, or by whoever owns the session)
\* while the session is between two messages; a close during a dispatch is
\* the up = FALSE of the dispatch actions.
ConnClose ==
  /\ conn_up /\ conn_up' = FALSE
  /\ f_pc # "dispatch" /\ s_pc # "dispatch"
  /\ UNCHANGED <<tvars, tampered, f2s, s2f, fvars, svars>>

(***************************************************************************)
(* UdpTrackerConn (src/udp_tracker.rs)                                     *)
(***************************************************************************)
\* mem::size_of::<ConnectResponse>(): u32, u32, u64
CONNECT_RESPONSE_SIZE == 16
\* mem::size_of::<AnnounceResponse>(): five u32
ANNOUNCE_RESPONSE_SIZE == 20
\* the announce receive buffer
ANNOUNCE_BUF_SIZE == 8192
\* actions of the tracker protocol
ACTION_CONNECT == 0
ACTION_ANNOUNCE == 1
\* the read timeout of attempt n is BASE_TIMEOUT * 2^n seconds
BASE_TIMEOUT == 15
\* the last attempt of send_and_retry_with_backoff
LAST_ATTEMPT == 8
\* seconds after which a timed-out round trip gives the connection id up
ID_LIFETIME == 60
\* bytes of one peer in a compact peer list of an IPv4 tracker
STRIDE_V4 == 6

\* n.to_be_bytes() for an integer of width bytes
RECURSIVE ToBeBytes(_, _)
ToBeBytes(n, width) ==
  IF width = 0 THEN <<>>
  ELSE Append(ToBeBytes(n \div 256, width - 1), n % 256)

\* uN::from_be_bytes(bytes)
RECURSIVE FromBeBytes(_)
FromBeBytes(bytes) ==
  IF bytes = <<>> THEN 0
  ELSE FromBeBytes(SubSeq(bytes, 1, Len(bytes) - 1)) * 256 + bytes[Len(bytes)]

\* buf[start..end] of a Rust slice (0-based, end exclusive)
Slice(buf, start, end) == SubSeq(buf, start + 1, end)

\* What a deserialize returns: Ok with the response, the error, or "Panic"
\* when a slice index is out of range.
NoResp == [action |-> 0, transaction_id |-> 0, connection_id |-> 0]
DRes(err, resp, len) == [err |-> err, resp |-> resp, len |-> len]

\* ConnectResponse::deserialize
ConnectResponse_deserialize(buf) ==
  IF Len(buf) < CONNECT_RESPONSE_SIZE
  THEN DRes("UdpTrackerBadResponse", NoResp, 0)
  ELSE DRes("Ok",
            [action |-> FromBeBytes(Slice(buf, 0, 4)),
             transaction_id |-> FromBeBytes(Slice(buf, 4, 8)),
             connection_id |-> FromBeBytes(Slice(buf, 8, 16))],
            Len(buf))

\* AnnounceResponse::deserialize: the length is compared with the size of
\* ConnectResponse; buf[16..20] of a shorter buf is out of range.
AnnounceResponse_deserialize(buf) ==
  IF Len(buf) < CONNECT_RESPONSE_SIZE
  THEN DRes("UdpTrackerBadResponse", NoResp, 0)
  ELSE IF Len(buf) < 20 THEN DRes("Panic", NoResp, 0)
  ELSE DRes("Ok",
            [action |-> FromBeBytes(Slice(buf, 0, 4)),
             transaction_id |-> FromBeBytes(Slice(buf, 4, 8)),
             connection_id |-> 0],
            Len(buf))

\* parse_compact_peer_list for a tracker reached over IPv4: one peer, its
\* four address bytes and its port, for every whole chunk of six bytes.
parse_compact_peer_list(addrs) ==
  [k \in 1..(Len(addrs) \div STRIDE_V4) |->
     LET hostport == Slice(addrs, (k - 1) * STRIDE_V4, k * STRIDE_V4)
     IN  [ip |-> Slice(hostport, 0, STRIDE_V4 - 2),
          port |-> FromBeBytes(Slice(hostport, STRIDE_V4 - 2, STRIDE_V4))]]

\* UdpTrackerConn.state.  age is epoch.elapsed().as_secs(), kept exact up to
\* ID_LIFETIME: the code only ever asks whether it is more than that.
Disconnected == [conn |-> "Disconnected", id |-> 0, age |-> 0]
Connected(id, age) == [conn |-> "Connected", id |-> id, age |-> age]

\* state after secs more seconds
Elapse(state, secs) ==
  IF state.conn = "Connected"
  THEN [state EXCEPT !.age = IF state.age + secs > ID_LIFETIME
                             THEN ID_LIFETIME + 1 ELSE state.age + secs]
  ELSE state

\* A read timeout that grows by BASE_TIMEOUT with every attempt.
Timeout_Linear(attempt) == BASE_TIMEOUT * (attempt + 1)

\* The read timeout of an attempt (line 251).
Timeout(attempt) == BASE_TIMEOUT * (2 ^ attempt)

\* No datagram transmitted yet.
NoTx == [op |-> "none", connection_id |-> 0, age |-> 0, attempt |-> 0,
         timeout |-> 0]

\* UdpTrackerConn::new
TrackerIdle ==
  /\ t_pc = "idle" /\ t_op = "none" /\ t_state = Disconnected
  /\ t_attempt = 0 /\ t_txid = 0 /\ t_tx = NoTx /\ t_sent = 0
  /\ t_rx = <<>> /\ t_got = FALSE /\ t_err = "Ok" /\ t_peers = <<>>
  /\ t_ops = 0 /\ t_idles = 0

\* An operation begins: the request is built, the retry loop is entered.
TrackerBegin(op, txid) ==
  /\ t_op' = op /\ t_txid' = txid
  /\ t_attempt' = 0 /\ t_sent' = 0 /\ t_tx' = NoTx
  /\ t_rx' = <<>> /\ t_got' = FALSE /\ t_peers' = <<>>
  /\ t_ops' = t_ops + 1

\* UdpTrackerConn::connect up to the round trip (lines 165-176).
\* connected: self.sock.connect(hostport) succeeded (line 167); if it did
\* not, connect returns the error with nothing sent.
TrackerConnectStart(txid, connected) ==
  /\ t_pc \in {"idle", "returned"}
  /\ TrackerBegin("connect", txid)
  /\ IF connected
     THEN t_pc' = "send" /\ t_err' = "Ok"
     ELSE t_pc' = "returned" /\ t_err' = "Io"
  /\ UNCHANGED <<t_state, t_idles>>

\* UdpTrackerConn::announce up to the round trip (lines 202-217), with
\* get_connection_id (lines 191-199): the epoch is not looked at.
\* addr_known: self.sock.local_addr() succeeded (line 215), which is asked
\* for after the connection id.
TrackerAnnounceStart(txid, addr_known) ==
  /\ t_pc \in {"idle", "returned"}
  /\ TrackerBegin("announce", txid)
  /\ IF t_state.conn = "Disconnected"
     THEN t_pc' = "returned" /\ t_err' = "UdpConnectionIdExpired"
     ELSE IF ~addr_known
     THEN t_pc' = "returned" /\ t_err' = "Io"
     ELSE t_pc' = "send" /\ t_err' = "Ok"
  /\ UNCHANGED <<t_state, t_idles>>

\* send_and_retry_with_backoff, lines 248-251: the request is transmitted
\* and set_read_timeout is called with the read timeout of the attempt.
\* sent: self.sock.send succeeded; timeout_set: set_read_timeout did.  A
\* failure of either ends the operation with the error; when the send
\* failed nothing was transmitted.
TrackerSend(sent, timeout_set) ==
  /\ t_pc = "send"
  /\ IF sent
     THEN /\ t_tx' = [op |-> t_op,
                      connection_id |-> IF t_op = "announce" THEN t_state.id
                                        ELSE 0,
                      age |-> t_state.age,
                      attempt |-> t_attempt,
                      timeout |-> Timeout(t_attempt)]
          /\ t_sent' = t_sent + 1
     ELSE UNCHANGED <<t_tx, t_sent>>
  /\ IF sent /\ timeout_set
     THEN t_pc' = "recv" /\ t_err' = t_err
     ELSE t_pc' = "returned" /\ t_err' = "Io"
  /\ UNCHANGED <<t_op, t_state, t_attempt, t_txid, t_rx, t_got, t_peers,
                 t_ops, t_idles>>

\* What connect and announce make of the bytes read (lines 177-188,
\* 218-223), after roundtrip (lines 230-234) and the end of
\* send_and_retry_with_backoff (lines 271-275).
TrackerFinish(op, txid, state, buf) ==
  LET d == IF op = "connect" THEN ConnectResponse_deserialize(buf)
           ELSE AnnounceResponse_deserialize(buf)
      action == IF op = "connect" THEN ACTION_CONNECT ELSE ACTION_ANNOUNCE
      err == IF Len(buf) = 0 THEN "UdpConnectionExhaustedRetries"
             ELSE IF d.err # "Ok" THEN d.err
             ELSE IF d.resp.transaction_id # txid \/ d.resp.action # action
                  THEN "UdpTrackerBadResponse"
             ELSE "Ok"
  IN  [err |-> err,
       state |-> IF err = "Ok" /\ op = "connect"
                 THEN Connected(d.resp.connection_id, 0) ELSE state,
       peers |-> IF err = "Ok" /\ op = "announce"
                 THEN parse_compact_peer_list(
                        Slice(buf, ANNOUNCE_RESPONSE_SIZE, d.len))
                 ELSE <<>>]

\* send_and_retry_with_backoff, lines 252-256: recv returns Ok after delay
\* seconds with the datagram cut to the buffer; the loop is left and the
\* operation runs to its end.
TrackerRecvOk(datagram, delay) ==
  /\ t_pc = "recv"
  /\ delay < Timeout(t_attempt)
  /\ LET size == IF t_op = "connect" THEN CONNECT_RESPONSE_SIZE
                 ELSE ANNOUNCE_BUF_SIZE
         buf == IF Len(datagram) > size THEN SubSeq(datagram, 1, size)
                ELSE datagram
         r == TrackerFinish(t_op, t_txid, Elapse(t_state, delay), buf)
     IN  /\ t_rx' = buf
         /\ t_got' = TRUE
         /\ t_err' = r.err
         /\ t_state' = r.state
         /\ t_peers' = r.peers
         /\ t_pc' = IF r.err = "Panic" THEN "panicked" ELSE "returned"
  /\ UNCHANGED <<t_op, t_attempt, t_txid, t_tx, t_sent, t_ops, t_idles>>

\* send_and_retry_with_backoff, lines 258-267 and 271-272: recv returns Err,
\* at the read timeout or at once; a connection id older than ID_LIFETIME
\* ends the operation, and so does the last attempt.
TrackerRecvErr(timed_out) ==
  /\ t_pc = "recv"
  /\ LET state == Elapse(t_state, IF timed_out THEN Timeout(t_attempt) ELSE 0)
     IN  /\ t_state' = state
         /\ IF state.conn = "Connected" /\ state.age > ID_LIFETIME
            THEN /\ t_pc' = "returned" /\ t_err' = "UdpConnectionIdExpired"
                 /\ t_attempt' = t_attempt
            ELSE IF t_attempt = LAST_ATTEMPT
            THEN /\ t_pc' = "returned"
                 /\ t_err' = "UdpConnectionExhaustedRetries"
                 /\ t_attempt' = t_attempt
            ELSE /\ t_pc' = "send" /\ t_err' = t_err
                 /\ t_attempt' = t_attempt + 1
  /\ UNCHANGED <<t_op, t_txid, t_tx, t_sent, t_rx, t_got, t_peers, t_ops,
                 t_idles>>

\* Time passes between two operations.
TrackerWait(secs) ==
  /\ t_pc \in {"idle", "returned"}
  /\ t_state' = Elapse(t_state, secs)
  /\ t_idles' = t_idles + 1
  /\ UNCHANGED <<t_pc, t_op, t_attempt, t_txid, t_tx, t_sent, t_rx, t_got,
                 t_err, t_peers, t_ops>>

(***************************************************************************)
(* The messages an arbitrary peer may send                                 *)
(***************************************************************************)
MaxPiece == (MaxLen \div PIECE_LENGTH) + 1
OptSizes == {None} \cup 0..MaxLen
OptIds == {None, UT_METADATA_ID, UT_METADATA_ID + 1}

\* The handshakes a peer may send.
PeerHandshakes ==
  {NewExtendedHandshake([ut_id |-> i, metadata_size |-> n]) :
     i \in OptIds, n \in OptSizes}
\* The Data messages a peer may send: any index, any trailer of up to a
\* piece and one that is a byte longer, with total_size; short trailers
\* without total_size (a shorter header).
PeerData ==
  {NewData(UT_METADATA_ID, p, MaxLen, t) :
     p \in 0..MaxPiece,
     t \in SeqsUpTo(Bytes, PIECE_LENGTH) \cup {[k \in 1..PIECE_LENGTH + 1 |-> 0]}}
  \cup {NewData(UT_METADATA_ID, p, None, t) :
          p \in 0..MaxPiece, t \in SeqsUpTo(Bytes, 1)}
\* Requests (in range, at the piece count, beyond it), a Reject, an unknown
\* msg_type, undecodable payloads, an extension this program does not
\* implement, a non-extended message.
PeerOther ==
  {NewRequest(UT_METADATA_ID, p) : p \in 0..MaxPiece + 1}
  \cup {Msg("Extended", UT_METADATA_ID,
            UtBencode([msg_type |-> t, piece |-> 0, total_size |-> None])) :
          t \in {REJECT, REJECT + 1}}
  \cup {Msg("Extended", i, <<>>) : i \in {None} \cup ExtIds}
  \cup {Msg("Other", 0, <<>>)}
PeerMsgs == PeerHandshakes \cup PeerData \cup PeerOther

(***************************************************************************)
(* SpecFetch: a fetcher against an arbitrary peer.  The peer has read      *)
(* whatever was sent before, so f2s holds what the last step sent.         *)
(***************************************************************************)
\* The Infos whose infohash the fetcher is given.
FetchTargets == {<<"y">>, <<"x", "y">>}

InitFetch ==
  /\ conn_up = TRUE /\ tampered = FALSE
  /\ f2s = <<>> /\ s2f = <<>>
  /\ \E i \in FetchTargets : FetcherIdle(FromBencodedInfoDict(ToBytes(i)))
  /\ SeederIdle
  /\ TrackerIdle

FNewConnect ==
  /\ \E connected \in BOOLEAN, ext \in BOOLEAN :
       FetcherNewConnect(connected, ext, <<>>)
  /\ UNCHANGED <<tvars, conn_up, tampered, s2f, svars>>
FNewExpect ==
  /\ \E received \in BOOLEAN, m \in PeerHandshakes \cup {Msg("Other", 0, <<>>)} :
       /\ received => conn_up
       /\ FetcherNewExpect(received, m)
  /\ UNCHANGED <<tvars, conn_up, tampered, f2s, s2f, svars>>
FRunStart ==
  /\ FetcherRunStart(<<>>)
  /\ UNCHANGED <<tvars, conn_up, tampered, s2f, svars>>
FRunRequest ==
  /\ FetcherRunRequest(<<>>)
  /\ UNCHANGED <<tvars, conn_up, tampered, s2f, svars>>
FRecv ==
  /\ conn_up
  /\ \E m \in PeerMsgs :
       /\ handle_message(m).hook = "ut_metadata_data" => f_datas < MaxData
       /\ FetcherRecv(m)
  /\ f2s' = <<>>
  /\ UNCHANGED <<tvars, conn_up, tampered, s2f, svars>>
FRecvErr ==
  /\ FetcherRecvErr
  /\ UNCHANGED <<tvars, conn_up, tampered, f2s, s2f, svars>>
FDispatch ==
  /\ \E up \in (IF handle_message(f_msg).hook = "ut_metadata_data"
                 THEN BOOLEAN ELSE {TRUE}) :
       FetcherDispatch(up, <<>>)
  /\ UNCHANGED <<tvars, tampered, s2f, svars>>

NextFetch ==
  \/ FNewConnect \/ FNewExpect \/ FRunStart \/ FRunRequest
  \/ FRecv \/ FRecvErr \/ FDispatch
  \/ ConnClose

SpecFetch == InitFetch /\ [][NextFetch]_vars

(***************************************************************************)
(* SpecAnswer: a fetcher against a peer that, once run has started, does   *)
(* nothing but answer each Request with a Data message of its choosing.    *)
(***************************************************************************)
ARecv ==
  /\ conn_up
  /\ f_reqs > f_datas /\ f_datas < MaxData
  /\ \E m \in PeerData : FetcherRecv(m)
  /\ f2s' = <<>>
  /\ UNCHANGED <<tvars, conn_up, tampered, s2f, svars>>

NextAnswer ==
  \/ FNewConnect \/ FNewExpect \/ FRunStart \/ FRunRequest
  \/ ARecv \/ FRecvErr \/ FDispatch
  \/ ConnClose

SpecAnswer == InitFetch /\ [][NextAnswer]_vars

(***************************************************************************)
(* SpecSeed: a seeder against an arbitrary peer.  The peer has read        *)
(* whatever was sent before, so s2f holds what the last step sent.         *)
(***************************************************************************)
InitSeed ==
  /\ conn_up = TRUE /\ tampered = FALSE
  /\ f2s = <<>> /\ s2f = <<>>
  /\ FetcherIdle(0)
  /\ SeederIdle
  /\ TrackerIdle

SNew ==
  /\ \E info \in Infos, ext \in BOOLEAN, received \in BOOLEAN,
        m \in PeerHandshakes \cup {Msg("Other", 0, <<>>)} :
       /\ received => conn_up
       /\ SeederNew(info, ext, received, m)
  /\ UNCHANGED <<tvars, conn_up, tampered, f2s, s2f, fvars>>
SSeedStart ==
  /\ SeederSeedStart(<<>>)
  /\ UNCHANGED <<tvars, conn_up, tampered, f2s, fvars>>
SSendExtendedHandshake ==
  /\ SeederSendExtendedHandshake(<<>>)
  /\ UNCHANGED <<tvars, conn_up, tampered, f2s, fvars>>
SIgnoreStart ==
  /\ SeederIgnoreStart(<<>>)
  /\ UNCHANGED <<tvars, conn_up, tampered, f2s, fvars>>
SIgnoreRecv ==
  /\ conn_up
  /\ \E m \in PeerMsgs : SeederIgnoreRecv(m)
  /\ s2f' = <<>>
  /\ UNCHANGED <<tvars, conn_up, tampered, f2s, fvars>>
SIgnoreRecvErr ==
  /\ SeederIgnoreRecvErr
  /\ UNCHANGED <<tvars, conn_up, tampered, f2s, s2f, fvars>>
SRecv ==
  /\ conn_up
  /\ \E m \in PeerMsgs : SeederRecv(m)
  /\ s2f' = <<>>
  /\ UNCHANGED <<tvars, conn_up, tampered, f2s, fvars>>
SRecvErr ==
  /\ SeederRecvErr
  /\ UNCHANGED <<tvars, conn_up, tampered, f2s, s2f, fvars>>
SDispatch ==
  /\ \E up \in (IF handle_message(s_msg).hook = "ut_metadata_request"
                 THEN BOOLEAN ELSE {TRUE}) :
       SeederDispatch(up, <<>>)
  /\ UNCHANGED <<tvars, tampered, f2s, fvars>>

NextSeed ==
  \/ SNew \/ SSeedStart
  \/ SSendExtendedHandshake
  \/ SIgnoreStart \/ SIgnoreRecv \/ SIgnoreRecvErr
  \/ SRecv \/ SRecvErr \/ SDispatch
  \/ ConnClose

SpecSeed == InitSeed /\ [][NextSeed]_vars

\* SpecSeed with the seeder's thread always scheduled: a step the seeder or
\* its peer can take is taken.
SpecSeedLive == SpecSeed /\ WF_vars(NextSeed)

(***************************************************************************)
(* SpecLoop: a fetcher and a seeder of the same Info over one reliable,    *)
(* in-order connection (InfoSeeder::spawn_and_seed and InfoFetcher::new,   *)
(* run of the tests).                                                      *)
(***************************************************************************)
InitLoop ==
  /\ conn_up = TRUE /\ tampered = FALSE
  /\ f2s = <<>> /\ s2f = <<>>
  /\ \E i \in Infos : FetcherIdle(FromBencodedInfoDict(ToBytes(i)))
  /\ SeederIdle
  /\ TrackerIdle

LFNewConnect ==
  /\ FetcherNewConnect(TRUE, TRUE, f2s)
  /\ UNCHANGED <<tvars, conn_up, tampered, s2f, svars>>
LSNew ==
  /\ f2s # <<>>
  /\ \E info \in Infos :
       /\ FromBencodedInfoDict(ToBytes(info)) = f_infohash
       /\ SeederNew(info, TRUE, TRUE, Head(f2s))
  /\ f2s' = Tail(f2s)
  /\ UNCHANGED <<tvars, conn_up, tampered, s2f, fvars>>
LSSeedStart ==
  /\ SeederSeedStart(s2f)
  /\ UNCHANGED <<tvars, conn_up, tampered, f2s, fvars>>
LFNewExpect ==
  /\ s2f # <<>>
  /\ FetcherNewExpect(TRUE, Head(s2f))
  /\ s2f' = Tail(s2f)
  /\ UNCHANGED <<tvars, conn_up, tampered, f2s, svars>>
LFRunStart ==
  /\ FetcherRunStart(f2s)
  /\ UNCHANGED <<tvars, conn_up, tampered, s2f, svars>>
LFRunRequest ==
  /\ FetcherRunRequest(f2s)
  /\ UNCHANGED <<tvars, conn_up, tampered, s2f, svars>>
LFRecv ==
  /\ s2f # <<>>
  /\ FetcherRecv(Head(s2f))
  /\ s2f' = Tail(s2f)
  /\ UNCHANGED <<tvars, conn_up, tampered, f2s, svars>>
LFRecvErr ==
  /\ FetcherRecvErr
  /\ UNCHANGED <<tvars, conn_up, tampered, f2s, s2f, svars>>
LFDispatch ==
  /\ FetcherDispatch(conn_up, f2s)
  /\ UNCHANGED <<tvars, tampered, s2f, svars>>
\* run has returned: the InfoFetcher, and with it the Connection, is dropped.
LFDrop ==
  /\ f_pc \in {"done", "failed"} /\ conn_up
  /\ conn_up' = FALSE
  /\ UNCHANGED <<tvars, tampered, f2s, s2f, fvars, svars>>
LSRecv ==
  /\ f2s # <<>>
  /\ SeederRecv(Head(f2s))
  /\ f2s' = Tail(f2s)
  /\ UNCHANGED <<tvars, conn_up, tampered, s2f, fvars>>
LSRecvErr ==
  /\ SeederRecvErr
  /\ UNCHANGED <<tvars, conn_up, tampered, f2s, s2f, fvars>>
LSDispatch ==
  /\ SeederDispatch(conn_up, s2f)
  /\ UNCHANGED <<tvars, tampered, f2s, fvars>>

NextLoop ==
  \/ LFNewConnect \/ LFNewExpect \/ LFRunStart \/ LFRunRequest
  \/ LFRecv \/ LFRecvErr \/ LFDispatch \/ LFDrop
  \/ LSNew \/ LSSeedStart
  \/ LSRecv \/ LSRecvErr \/ LSDispatch

SpecLoop == InitLoop /\ [][NextLoop]_vars

\* SpecLoop with both threads always scheduled: a step either side can
\* take is taken.
SpecLoopLive == SpecLoop /\ WF_vars(NextLoop)

(***************************************************************************)
(* SpecWork: SpecLoop with the seeder's thread given any of the functions  *)
(* of InfoSeeder as its work (InfoSeeder::spawn of the tests): seed,       *)
(* send_extended_handshake or receive_and_ignore.                          *)
(***************************************************************************)
LSSendExtendedHandshake ==
  /\ SeederSendExtendedHandshake(s2f)
  /\ UNCHANGED <<tvars, conn_up, tampered, f2s, fvars>>
LSIgnoreStart ==
  /\ SeederIgnoreStart(s2f)
  /\ UNCHANGED <<tvars, conn_up, tampered, f2s, fvars>>
LSIgnoreRecv ==
  /\ f2s # <<>>
  /\ SeederIgnoreRecv(Head(f2s))
  /\ f2s' = Tail(f2s)
  /\ UNCHANGED <<tvars, conn_up, tampered, s2f, fvars>>
LSIgnoreRecvErr ==
  /\ SeederIgnoreRecvErr
  /\ UNCHANGED <<tvars, conn_up, tampered, f2s, s2f, fvars>>
\* work has returned: the InfoSeeder, and with it the Connection, is
\* dropped.
LSDrop ==
  /\ s_pc \in {"handshake_returned", "ignore_returned", "returned"}
  /\ conn_up
  /\ conn_up' = FALSE
  /\ UNCHANGED <<tvars, tampered, f2s, s2f, fvars, svars>>

NextWork ==
  \/ NextLoop
  \/ LSSendExtendedHandshake
  \/ LSIgnoreStart \/ LSIgnoreRecv \/ LSIgnoreRecvErr
  \/ LSDrop

SpecWork == InitLoop /\ [][NextWork]_vars

(***************************************************************************)
(* SpecTamper: SpecLoop with one byte of the final piece changed on its    *)
(* way to the fetcher.                                                     *)
(***************************************************************************)
\* The bytes after the header of a ut_metadata payload.
Trailer(payload) ==
  SubSeq(payload, Len(UtBencode(UtFromBencode(payload))) + 1, Len(payload))

\* A message on the wire is a ut_metadata message of the given msg_type,
\* whatever id its receiver gave the extension.
OnWire(message, msg_type) ==
  /\ message.flavour = "Extended"
  /\ message.id # None /\ message.id # HANDSHAKE_ID
  /\ UtFromBencode(message.payload).ok
  /\ UtFromBencode(message.payload).msg_type = msg_type
WirePiece(message) == UtFromBencode(message.payload).piece

\* message is the Data message of the seeder's final piece.
IsFinalPiece(message) ==
  OnWire(message, DATA) /\ WirePiece(message) = s_pieces - 1

Tamper ==
  /\ ~tampered /\ tampered' = TRUE
  /\ \E k \in 1..Len(s2f) :
       /\ IsFinalPiece(s2f[k])
       /\ LET p == s2f[k].payload
              h == Len(p) - Len(Trailer(p))
          IN  \E j \in h + 1..Len(p) :
                \E b \in Bytes \ {p[j]} :
                  s2f' = [s2f EXCEPT ![k].payload[j] = b]
  /\ UNCHANGED <<tvars, conn_up, f2s, fvars, svars>>

NextTamper == NextLoop \/ Tamper

SpecTamper == InitLoop /\ [][NextTamper]_vars

(***************************************************************************)
(* SpecTracker: one UdpTrackerConn, its owner asking for connects and      *)
(* announces, against a tracker that answers with any datagram or not at   *)
(* all.                                                                    *)
(***************************************************************************)
\* The transaction ids rng.gen() draws and the connection ids a tracker
\* hands out.
TxIds == {1, 2}
ConnIds == {1, 2}

\* Every datagram that is the first bytes of the given one.
Prefixes(datagram) == {SubSeq(datagram, 1, n) : n \in 0..Len(datagram)}

\* The connect responses of a tracker, one byte longer than the receive
\* buffer, and what is left of them when bytes are missing.
ConnectReplies ==
  UNION {{SubSeq(d, 1, n) : n \in {0, CONNECT_RESPONSE_SIZE - 1,
                                    CONNECT_RESPONSE_SIZE, Len(d)}} :
           d \in {ToBeBytes(a, 4) \o ToBeBytes(x, 4) \o ToBeBytes(c, 8) \o <<0>> :
                    a \in {ACTION_CONNECT, ACTION_ANNOUNCE}, x \in TxIds,
                    c \in ConnIds}}

\* The compact peer list of MaxPeers IPv4 peers.
PeerBytes(k) == <<10, 0, 0, k, 26, 224 + k>>
LongestPeerList ==
  [i \in 1..(MaxPeers * STRIDE_V4) |->
     PeerBytes(((i - 1) \div STRIDE_V4) + 1)[((i - 1) % STRIDE_V4) + 1]]

\* The announce responses of a tracker, and every datagram that is the
\* first bytes of one.
AnnounceReplies ==
  UNION {Prefixes(ToBeBytes(a, 4) \o ToBeBytes(x, 4) \o ToBeBytes(1800, 4)
                    \o ToBeBytes(3, 4) \o ToBeBytes(5, 4)
                    \o LongestPeerList) :
           a \in {ACTION_ANNOUNCE, ACTION_CONNECT}, x \in TxIds}

InitTracker ==
  /\ conn_up = TRUE /\ tampered = FALSE
  /\ f2s = <<>> /\ s2f = <<>>
  /\ FetcherIdle(0)
  /\ SeederIdle
  /\ TrackerIdle

TConnectStart ==
  /\ t_ops < MaxOps
  /\ \E txid \in TxIds, connected \in BOOLEAN :
       TrackerConnectStart(txid, connected)
  /\ UNCHANGED pvars
TAnnounceStart ==
  /\ t_ops < MaxOps
  /\ \E txid \in TxIds, addr_known \in BOOLEAN :
       TrackerAnnounceStart(txid, addr_known)
  /\ UNCHANGED pvars
TSend ==
  /\ \E sent \in BOOLEAN, timeout_set \in BOOLEAN :
       TrackerSend(sent, timeout_set)
  /\ UNCHANGED pvars
TRecvOk ==
  /\ \E d \in (IF t_op = "connect" THEN ConnectReplies ELSE AnnounceReplies),
        delay \in {0, Timeout(t_attempt) - 1} :
       TrackerRecvOk(d, delay)
  /\ UNCHANGED pvars
TRecvErr ==
  /\ \E timed_out \in BOOLEAN : TrackerRecvErr(timed_out)
  /\ UNCHANGED pvars
TWait ==
  /\ t_idles < MaxIdles
  /\ TrackerWait(IdleQuantum)
  /\ UNCHANGED pvars

NextTracker ==
  \/ TConnectStart \/ TAnnounceStart
  \/ TSend \/ TRecvOk \/ TRecvErr
  \/ TWait

SpecTracker == InitTracker /\ [][NextTracker]_vars

(***************************************************************************)
(* Properties                                                              *)
(***************************************************************************)
IsData(message) == handle_message(message).hook = "ut_metadata_data"
IsRequest(message) == handle_message(message).hook = "ut_metadata_request"
PieceOf(message) == handle_message(message).msg.piece
IsHandshake(message) ==
  /\ handle_message(message).hook = "extension_handshake"
  /\ HsFromBencode(message.payload).ok
HandshakeOf(message) == HsFromBencode(message.payload)
IntegrityErrors ==
  {"PeerUtMetadataInfoDeserialize", "PeerUtMetadataWrongInfohash"}

\* C1: run returns an Info only when the accumulated bytes are exactly as
\* long as the declared metadata_size and the infohash of the re-encoded
\* decoding of them is the fetcher's infohash; the Info returned is that
\* decoding; whenever run has not returned Ok there is no Info.
C1_VerifiedOrNothing ==
  /\ f_pc = "done" =>
       /\ Len(f_dict) = f_size
       /\ FromBytes(f_dict) # NoInfo
       /\ FromBencodedInfoDict(ToBytes(FromBytes(f_dict))) = f_infohash
       /\ f_result = FromBytes(f_dict)
  /\ f_pc # "done" => f_result = NoInfo

\* run returned an Info assembled from more than one piece whose bytes were
\* not the canonical encoding.
C1_Witness ==
  /\ f_pc = "done"
  /\ Len(f_dict) > PIECE_LENGTH
  /\ f_dict # ToBytes(f_result)

\* C2 (as claimed): whenever run has returned in a session with a seeder of
\* the same Info whose dictionary has one or two pieces, it has returned an
\* Info equal to the seeded one.
C2_RoundTrip ==
  (f_pc \in {"done", "failed"} /\ s_pieces \in {1, 2}) =>
    (f_pc = "done" /\ f_result = s_info)

\* C3 (as claimed): the Data message the seeder sends for its last piece
\* carries len - (pieces - 1) * PIECE_LENGTH bytes, more than none and at
\* most PIECE_LENGTH.
C3_LastPieceLength ==
  \A k \in 1..Len(s2f) :
    IsFinalPiece(s2f[k]) =>
      /\ Len(Trailer(s2f[k].payload))
           = Len(s_dict) - (s_pieces - 1) * PIECE_LENGTH
      /\ Len(Trailer(s2f[k].payload)) \in 1..PIECE_LENGTH

\* C4 (as claimed): dispatching an undecodable message or a Request for a
\* piece index at or beyond the piece count leaves the seeder in its
\* serving loop.
C4_SeederResilience ==
  [][(/\ s_pc = "dispatch"
      /\ \/ handle_message(s_msg).hook = "error"
         \/ IsRequest(s_msg) /\ PieceOf(s_msg) >= s_pieces)
     => s_pc' = "serving"]_vars

\* C5 (as claimed): for a Request with a piece index at or beyond the piece
\* count the seeder sends nothing and slices no range of info_dict.
C5_OutOfRangeIgnored ==
  [][(s_pc = "dispatch" /\ IsRequest(s_msg) /\ PieceOf(s_msg) >= s_pieces)
     => (s2f' = <<>> /\ s_range' = NoRange)]_vars

\* C6 (as claimed): once a handshake with another metadata_size has dropped
\* received bytes, the next Request the fetcher sends is for piece 0.
C6_RestartFromZero ==
  [][(f_pc = "dispatch" /\ f_restart /\ f2s' # <<>>)
     => \A k \in 1..Len(f2s') :
          OnWire(f2s'[k], REQUEST) /\ WirePiece(f2s'[k]) = 0]_vars

\* C7: a Data message whose piece index is not len(info_dict) / PIECE_LENGTH
\* ends run with PeerUtMetadataWrongPiece; info_dict is as before and
\* nothing is sent.
C7_WrongPieceAborts ==
  [][(/\ f_pc = "dispatch" /\ IsData(f_msg)
      /\ PieceOf(f_msg) # Len(f_dict) \div PIECE_LENGTH)
     => (/\ f_pc' = "failed" /\ f_err' = "PeerUtMetadataWrongPiece"
         /\ f_dict' = f_dict /\ f2s' = <<>>
         /\ f_result' = NoInfo)]_vars

\* run failed with the wrong-piece error although the trailer would have
\* completed the declared size.
C7_Witness ==
  /\ f_pc = "failed" /\ f_err = "PeerUtMetadataWrongPiece"
  /\ IsData(f_msg)
  /\ f_dict # <<>>
  /\ Len(f_dict) + Len(Trailer(f_msg.payload)) = f_size
  /\ FromBencodedInfoDict(ToBytes(FromBytes(f_dict \o Trailer(f_msg.payload))))
       = f_infohash

\* C8: with one byte of the final piece changed in flight, run, once it has
\* returned, has failed with a decode error or a wrong infohash, and has
\* returned no Info.
C8_TamperDetected ==
  (tampered /\ f_pc \in {"done", "failed"}) =>
    (f_pc = "failed" /\ f_err \in IntegrityErrors /\ f_result = NoInfo)

\* A changed final piece of a two-piece dictionary that still decodes was
\* refused for its infohash.
C8_Witness ==
  /\ tampered /\ f_pc = "failed" /\ f_err = "PeerUtMetadataWrongInfohash"
  /\ s_pieces = 2
  /\ FromBytes(f_dict) # NoInfo /\ FromBytes(f_dict) # s_info

\* new() has returned: the handshake it read, if it read one.
NewRead == f_pc \in {"new_failed", "constructed"} /\ IsHandshake(f_msg)

\* C9 (as claimed): new fails with the size-not-known error when the
\* handshake declares no metadata_size, and with the not-supported error
\* when it lists no ut_metadata id or the connection lacks the extension
\* protocol; a failed new has sent no Request.
C9_Original ==
  /\ (NewRead /\ HandshakeOf(f_msg).metadata_size = None) =>
       (f_pc = "new_failed" /\ f_err = "PeerUtMetadataMetadataSizeNotKnown")
  /\ (NewRead /\ HandshakeOf(f_msg).ut_id = None) =>
       (f_pc = "new_failed" /\ f_err = "PeerUtMetadataNotSupported")
  /\ f_pc = "new_failed" => \A k \in 1..Len(f2s) : ~OnWire(f2s[k], REQUEST)

\* C9 (amended): size-not-known when the handshake declares no
\* metadata_size; not-supported when it declares one and lists no
\* ut_metadata id, or when the connection lacks the extension protocol (no
\* handshake is then sent or read); a failed new has sent no Request.
C9_Negotiation ==
  /\ (NewRead /\ HandshakeOf(f_msg).metadata_size = None) =>
       (f_pc = "new_failed" /\ f_err = "PeerUtMetadataMetadataSizeNotKnown")
  /\ (NewRead /\ HandshakeOf(f_msg).metadata_size # None
        /\ HandshakeOf(f_msg).ut_id = None) =>
       (f_pc = "new_failed" /\ f_err = "PeerUtMetadataNotSupported")
  /\ (f_pc = "new_failed" /\ f_err = "PeerUtMetadataNotSupported"
        /\ f_msg = NoMsg) => (~f_ext /\ f2s = <<>>)
  /\ (f_pc # "init" /\ ~f_ext) => (f_pc = "new_failed" /\ f_msg = NoMsg)
  /\ f_pc = "constructed" =>
       (f_size = HandshakeOf(f_msg).metadata_size
        /\ f_id = HandshakeOf(f_msg).ut_id /\ f_size # None /\ f_id # None)
  /\ f_pc = "new_failed" => \A k \in 1..Len(f2s) : ~OnWire(f2s[k], REQUEST)

\* new failed with the not-supported error on a handshake that declares a
\* size and lists no id, having sent its own handshake and no Request.
C9_Witness ==
  /\ f_pc = "new_failed" /\ f_err = "PeerUtMetadataNotSupported"
  /\ IsHandshake(f_msg)
  /\ HandshakeOf(f_msg).metadata_size # None
  /\ HandshakeOf(f_msg).ut_id = None
  /\ f2s # <<>>

\* C10 (as claimed): every Request the fetcher has just sent carries the
\* piece index len(info_dict) / PIECE_LENGTH.
C10_RequestIndex ==
  \A k \in 1..Len(f2s) :
    OnWire(f2s[k], REQUEST) =>
      WirePiece(f2s[k]) = Len(f_dict) \div PIECE_LENGTH

\* C11 (as claimed): in every state of a fetch session, the one in which
\* ut_metadata_data has returned PeerUtMetadataInfoLength included,
\* info_dict is no longer than metadata_size.
C11_AccumulatedWithinSize == Len(f_dict) <= f_size

\* n is the least number of pieces of PIECE_LENGTH bytes that hold len bytes.
IsCeil(n, len) ==
  /\ n >= 0
  /\ n * PIECE_LENGTH >= len
  /\ n > 0 => (n - 1) * PIECE_LENGTH < len

\* C12: the piece count InfoSeeder::new stores is ceil(len / PIECE_LENGTH),
\* len the length of the serialized dictionary; so it is for every length
\* from 0 to twice MaxLen.
C12_PieceCount ==
  /\ s_pc \in {"constructed", "serving", "dispatch", "panicked", "returned"}
       => (s_dict = ToBytes(s_info) /\ IsCeil(s_pieces, Len(s_dict)))
  /\ \A len \in 0..(2 * MaxLen) : IsCeil(Pieces(len), len)

\* new has stored the piece count of a dictionary whose length is a
\* multiple of PIECE_LENGTH.
C12_Witness ==
  /\ s_pc = "constructed"
  /\ Len(s_dict) > 0
  /\ Len(s_dict) % PIECE_LENGTH = 0
  /\ s_pieces = Len(s_dict) \div PIECE_LENGTH

\* C13: the Requests run has sent are at most one more than the Data
\* messages ut_metadata_data was given, whatever the peer sends.
C13_NeverPipelined == f_reqs - f_datas <= 1

\* run is waiting with a Request outstanding after a Data message, a
\* handshake that dropped the received bytes, and a Data message again.
C13_Witness ==
  /\ f_pc = "running"
  /\ f_datas >= 2
  /\ f_reqs = f_datas + 1
  /\ f_restart = FALSE
  /\ Len(f_dict) < PIECE_LENGTH

\* C14 (as claimed): once the connection is closed under a seeder in its
\* serving loop, seed eventually returns the transport error.
C14_Teardown ==
  (s_pc = "serving" /\ ~conn_up) ~> (s_pc = "returned" /\ s_err = "Network")

\* C15 (as claimed): once seed is in its loop it stays there, whatever
\* recv and the dispatch return; seed has returned only when its handshake
\* could not be sent.
C15_SeedNeverReturns ==
  [][/\ s_pc \in {"serving", "dispatch"} => s_pc' \in {"serving", "dispatch"}
     /\ s_pc' = "returned" =>
          (s_pc = "constructed" /\ ~conn_up /\ s_err' = "Network"
           /\ s2f' = <<>>)]_vars

\* ceil(len / PIECE_LENGTH)
CeilDiv(len) == CHOOSE n \in 0..len : IsCeil(n, len)

\* C16 (as claimed): against a peer that answers every Request with a Data
\* message, ut_metadata_data is given at most ceil(metadata_size /
\* PIECE_LENGTH) Data messages, whatever their trailers, for every declared
\* size of a byte or more.
C16_BoundedByDeclaredSize == f_size > 0 => f_datas <= CeilDiv(f_size)

\* The hook the routing table of the dispatcher names for a message, from
\* its flavour, its extension id and its msg_type alone.
ExpectedHook(message) ==
  IF message.flavour # "Extended" THEN "none"
  ELSE IF message.id = HANDSHAKE_ID THEN "extension_handshake"
  ELSE IF message.id = UT_METADATA_ID
       THEN IF UtFromBencode(message.payload).msg_type = DATA
            THEN "ut_metadata_data"
            ELSE IF UtFromBencode(message.payload).msg_type = REQUEST
            THEN "ut_metadata_request"
            ELSE "none"
  ELSE "none"

\* The extended payload of the message has its id byte and, for a
\* ut_metadata message, a header that decodes.
Decodes(message) ==
  message.flavour = "Extended" =>
    /\ message.id # None
    /\ message.id = UT_METADATA_ID => UtFromBencode(message.payload).ok

\* One of the three hooks is run for the message.
Invoked(message) ==
  handle_message(message).hook
    \in {"extension_handshake", "ut_metadata_data", "ut_metadata_request"}

\* The dispatch leaves the fetcher as it was and sends nothing.
FetcherUntouched ==
  /\ f2s' = <<>>
  /\ UNCHANGED <<conn_up, f_id, f_size, f_dict, f_info, f_result, f_reqs,
                 f_datas>>

\* C17 (as claimed): the hook run is the one the routing table names, and
\* whenever no hook is run handle_message returns Ok, the fetcher is as it
\* was and nothing is sent.
C17_Original ==
  [][f_pc = "dispatch" =>
       /\ Invoked(f_msg) => handle_message(f_msg).hook = ExpectedHook(f_msg)
       /\ ~Invoked(f_msg) =>
            (f_pc' = "running" /\ f_err' = f_err /\ FetcherUntouched)]_vars

\* C17 (amended): for a message that decodes, the hook run is the one the
\* routing table names, and when that is none handle_message returns Ok,
\* the fetcher is as it was and nothing is sent; for an extended message
\* without an id byte or a ut_metadata message whose header does not decode
\* no hook is run and handle_message returns the decode error, the fetcher
\* as it was and nothing sent.
C17_Routing ==
  [][f_pc = "dispatch" =>
       /\ Decodes(f_msg) => handle_message(f_msg).hook = ExpectedHook(f_msg)
       /\ (Decodes(f_msg) /\ ExpectedHook(f_msg) = "none") =>
            (f_pc' = "running" /\ f_err' = f_err /\ FetcherUntouched)
       /\ ~Decodes(f_msg) =>
            (/\ ~Invoked(f_msg)
             /\ f_pc' = "failed" /\ f_err' = "Bencode"
             /\ FetcherUntouched)]_vars

\* run is back in its loop, its received bytes and its outstanding Request
\* as they were, after a Reject.
C17_Witness ==
  /\ f_pc = "running"
  /\ OnWire(f_msg, REJECT) /\ f_msg.id = UT_METADATA_ID
  /\ f_dict # <<>>
  /\ f_reqs = f_datas + 1

\* The smaller of two numbers.
Min(a, b) == IF a < b THEN a ELSE b

\* C18 (as claimed): for a Request with a piece index below the piece count
\* the seeder, its connection open, sends one message: the Data message
\* with the peer's ut_metadata id, that piece index, total_size the length
\* of info_dict, and the bytes of info_dict from piece * PIECE_LENGTH up to
\* (piece + 1) * PIECE_LENGTH or the end of info_dict, whichever is first.
C18_InRangeData ==
  [][(/\ s_pc = "dispatch" /\ IsRequest(s_msg) /\ PieceOf(s_msg) < s_pieces
      /\ conn_up')
     => LET i == PieceOf(s_msg)
            L == Len(s_dict)
        IN  s2f' = <<NewData(s_id, i, L,
                             SubSeq(s_dict, i * PIECE_LENGTH + 1,
                                    Min((i + 1) * PIECE_LENGTH, L)))>>]_vars

\* The bytes of a Data payload after its header, the header being as long
\* as the decoded header encoded again.
TrailingBytes(message) ==
  SubSeq(message.payload,
         Len(UtBencode(handle_message(message).msg)) + 1,
         Len(message.payload))

\* C19: a Data message with the expected piece index and more than
\* PIECE_LENGTH trailing bytes ends run with PeerUtMetadataPieceLength,
\* info_dict as before and nothing sent; with at most PIECE_LENGTH trailing
\* bytes, those bytes and no others are appended to info_dict.
C19_PieceLength ==
  [][(/\ f_pc = "dispatch" /\ IsData(f_msg)
      /\ PieceOf(f_msg) = Len(f_dict) \div PIECE_LENGTH)
     => IF Len(TrailingBytes(f_msg)) > PIECE_LENGTH
        THEN /\ f_pc' = "failed" /\ f_err' = "PeerUtMetadataPieceLength"
             /\ f_dict' = f_dict /\ f2s' = <<>> /\ f_reqs' = f_reqs
             /\ f_result' = NoInfo
        ELSE /\ f_dict' = f_dict \o TrailingBytes(f_msg)
             /\ f_err' # "PeerUtMetadataPieceLength"]_vars

\* run failed with the piece-length error on a piece after the first, the
\* bytes received before still in info_dict.
C19_Witness ==
  /\ f_pc = "failed" /\ f_err = "PeerUtMetadataPieceLength"
  /\ IsData(f_msg) /\ PieceOf(f_msg) > 0
  /\ Len(TrailingBytes(f_msg)) = PIECE_LENGTH + 1
  /\ Len(f_dict) >= PIECE_LENGTH

\* The message is routed to extension_handshake.
IsHandshakeHook(message) ==
  handle_message(message).hook = "extension_handshake"

\* C20: while seed serves, info_dict, metadata_size, pieces and the
\* ut_metadata id stay what new set them to, whatever message is
\* dispatched; ut_metadata_data and extension_handshake send nothing and
\* the loop goes on.
C20_SeederFrame ==
  [][(s_pc = "constructed" \/ s_pc = "serving" \/ s_pc = "dispatch") =>
       /\ UNCHANGED <<s_info, s_dict, s_size, s_pieces, s_id>>
       /\ s_dict = ToBytes(s_info) /\ s_size = Len(s_dict)
       /\ s_pieces = Pieces(Len(s_dict))
       /\ (s_pc = "dispatch" /\ (IsData(s_msg) \/ IsHandshakeHook(s_msg)))
            => (s2f' = <<>> /\ s_pc' = "serving" /\ conn_up' = conn_up)]_vars

\* The seeder is back in its loop after a Data message carrying bytes, its
\* dictionary of two pieces as new serialized it.
C20_Witness ==
  /\ s_pc = "serving"
  /\ IsData(s_msg) /\ TrailingBytes(s_msg) # <<>>
  /\ s_pieces = 2 /\ s_dict = ToBytes(s_info)
  /\ s2f = <<>>

\* C21: on a Request, whatever its piece index, the fetcher sends nothing,
\* info_dict, metadata_size, the message id and the result stay as they
\* were, and run goes on to its next recv.
C21_FetcherIgnoresRequest ==
  [][(f_pc = "dispatch" /\ IsRequest(f_msg))
     => (f_pc' = "running" /\ f_err' = f_err /\ FetcherUntouched)]_vars

\* run is back at recv after a Request for a piece it holds bytes of, its
\* own Request still outstanding.
C21_Witness ==
  /\ f_pc = "running"
  /\ IsRequest(f_msg) /\ PieceOf(f_msg) = 0
  /\ f_dict # <<>>
  /\ f_reqs = f_datas + 1
  /\ f2s = <<>>

\* C22: a handshake read by run that declares no metadata_size, or no
\* ut_metadata id, ends run with the error new returns for that handshake
\* (size-not-known without a size, not-supported with a size and no id),
\* metadata_size, the message id and info_dict as they were; a handshake
\* with both replaces metadata_size and the id and empties info_dict, and
\* run goes on.
C22_MidSessionHandshake ==
  [][(f_pc = "dispatch" /\ IsHandshake(f_msg))
     => LET h == HandshakeOf(f_msg)
        IN  IF h.metadata_size = None \/ h.ut_id = None
            THEN /\ f_pc' = "failed" /\ f_err' = NewOutcome(h)
                 /\ h.metadata_size = None
                      => f_err' = "PeerUtMetadataMetadataSizeNotKnown"
                 /\ (h.metadata_size # None /\ h.ut_id = None)
                      => f_err' = "PeerUtMetadataNotSupported"
                 /\ FetcherUntouched
            ELSE /\ f_pc' = "running" /\ f_err' = f_err
                 /\ f_size' = h.metadata_size /\ f_id' = h.ut_id
                 /\ f_dict' = <<>> /\ f2s' = <<>>]_vars

\* run failed with the not-supported error on a handshake read after a
\* piece, the bytes of the piece still in info_dict.
C22_Witness ==
  /\ f_pc = "failed" /\ f_err = "PeerUtMetadataNotSupported"
  /\ IsHandshake(f_msg)
  /\ HandshakeOf(f_msg).metadata_size # None
  /\ HandshakeOf(f_msg).metadata_size # f_size
  /\ f_dict # <<>> /\ f_datas > 0

\* The seeder is dispatching the fetcher's Request for piece 0, both
\* constructions complete.
FirstRequestDispatched ==
  /\ s_pc = "dispatch"
  /\ OnWire(s_msg, REQUEST) /\ WirePiece(s_msg) = 0
  /\ f_pc \notin {"init", "expect", "new_failed"}

\* C23: a fetcher (new, run) and a seeder (new, seed) on one reliable
\* in-order connection do not block each other at start-up: both
\* constructions complete and the seeder comes to dispatch the fetcher's
\* Request for piece 0.
C23_StartUp ==
  /\ <>(f_pc = "constructed")
  /\ <>(s_pc = "constructed")
  /\ <>FirstRequestDispatched

\* The seeder dispatches the Request for piece 0 while run waits for the
\* answer, nothing else on its way in either direction.
C23_Witness ==
  /\ FirstRequestDispatched
  /\ f_pc = "running"
  /\ f_reqs = 1 /\ f_datas = 0
  /\ f2s = <<>> /\ s2f = <<>>

\* An operation of the tracker connection is at its end, as a returned value
\* or as a panic.
TrackerEnded == t_pc = "returned" \/ t_pc = "panicked"

\* C24: UdpTrackerConn never transmits an announce request that carries a
\* connection id connect received more than 60 seconds earlier (t_tx is the
\* last datagram transmitted, with the age of the id when it left).
C24_ConnectionIdFresh ==
  t_tx.op = "announce" => t_tx.age <= 60

\* C25, as the specification has it: the nth transmission has a read timeout
\* of 15 * 2^n seconds, there are never more than nine, none follows a
\* received response, and an operation that ends without a response has
\* transmitted nine times and fails with UdpConnectionExhaustedRetries.
C25_Original ==
  /\ t_sent <= 9
  /\ (t_sent > 0 => t_tx.timeout = 15 * (2 ^ (t_sent - 1)))
  /\ (t_got => TrackerEnded)
  /\ (t_pc = "returned" /\ ~t_got /\ t_sent > 0
      => t_sent = 9 /\ t_err = "UdpConnectionExhaustedRetries")

\* C25, amended: the nth transmission has a read timeout of 15 * 2^n
\* seconds, there are never more than nine, none follows a received
\* response, and the retry loop always ends (inside the loop the next step
\* is always possible and the attempts, counted by the transmissions, are
\* bounded by nine).  An operation that ends without a response either has
\* transmitted nine times and fails with UdpConnectionExhaustedRetries, or
\* fails earlier with UdpConnectionIdExpired because the connection holds a
\* connection id older than 60 seconds when a receive fails, or fails with
\* the error of the socket when a send or the setting of the read timeout
\* fails.
C25_Retry ==
  /\ t_sent <= 9
  /\ (t_sent > 0 => t_tx.timeout = 15 * (2 ^ (t_sent - 1)))
  /\ (t_got => TrackerEnded)
  /\ (t_pc = "send" => t_attempt <= 8 /\ t_sent = t_attempt /\ ENABLED TSend)
  /\ (t_pc = "recv"
      => t_attempt <= 8 /\ t_sent = t_attempt + 1 /\ ENABLED TRecvErr)
  /\ (t_pc = "returned" /\ ~t_got /\ t_sent > 0
      => \/ t_sent = 9 /\ t_err = "UdpConnectionExhaustedRetries"
         \/ /\ t_err = "UdpConnectionIdExpired"
            /\ t_state.conn = "Connected" /\ t_state.age > 60
         \/ t_err = "Io")

\* Nine transmissions went unanswered, the last with a read timeout of 3840
\* seconds, and the operation failed with UdpConnectionExhaustedRetries.
C25_Witness ==
  /\ t_pc = "returned" /\ ~t_got
  /\ t_sent = 9 /\ t_tx.attempt = 8 /\ t_tx.timeout = 3840
  /\ t_err = "UdpConnectionExhaustedRetries"

\* C26: whatever the length of the datagram an announce receives, a
\* datagram shorter than the 20-byte announce response header makes announce
\* return UdpTrackerBadResponse, and one of at least 20 bytes that answers
\* the request has its peers parsed from exactly the bytes between the
\* header and the received length.
C26_AnnounceLength ==
  t_op = "announce" /\ t_got
  => /\ t_pc = "returned"
     /\ (Len(t_rx) < 20 => t_err = "UdpTrackerBadResponse")
     /\ (Len(t_rx) >= 20 /\ t_err = "Ok"
         => t_peers = parse_compact_peer_list(SubSeq(t_rx, 21, Len(t_rx))))

=============================================================================
